---- MODULE Spec2Model ----
(***************************************************************************)
(* pySnapCollate: the export cycle driver (core.export with export_pencil  *)
(* and delete_original_snapshot) and the daemon registry / PBS bridge      *)
(* (setup, copy, modify, inspect, start, stop, remove).                    *)
(*                                                                         *)
(* A snapshot name is <<family, n>>: the string family ++ decimal(n), such *)
(* as VAR10.  An exported artifact is <<field, snapshot, ext>>: the file   *)
(* exported__<field>__<snapshot>.<ext> of the working directory.  A shard  *)
(* is <<p, snapshot>>: the file data/proc<p>/<snapshot> of the source.     *)
(*                                                                         *)
(* The external world is deterministic: the reader succeeds on a snapshot  *)
(* exactly when the reader is installed, the snapshot is not corrupt and   *)
(* all of its shards are on disk; os.remove fails exactly in the proc      *)
(* directories that are read-only.                                         *)
(***************************************************************************)
EXTENDS Integers, Sequences, FiniteSets, TLC

\* ---- bounds of the model ------------------------------------------------
NumProcs == 2
MaxBatch == 2
MaxCycles == 2

Procs == 0 .. (NumProcs - 1)
Family == {"VAR", "PVAR"}

\* Snapshots the simulation has written to every data/proc* directory.
OnDisk == {<<"VAR", 2>>, <<"VAR", 9>>, <<"VAR", 10>>, <<"PVAR", 1>>}

\* Command lines of `pySnapCollate direct` that are tried.
VarnamesChoices == {<< >>, <<"rho", "t">>, <<"zz", "rho">>, <<"rho", "zz">>}
VarfilesChoices == {<< >>, <<<<"VAR", 10>>, <<"VAR", 9>>, <<"VAR", 9>>>>}
PvarnamesChoices == {<< >>, <<"xp">>}
PvarfilesChoices == {<< >>, <<<<"PVAR", 1>>>>}

VARIABLES
    argv,           \* the command line of the run (never changes)
    args,           \* the argparse namespace export() works on
    pencil,         \* whether `import pencil_old` succeeds
    corrupt,        \* snapshots the reader cannot read
    roProcs,        \* proc directories in which os.remove fails
    shards,         \* files data/proc<p>/<snapshot> of the source
    artifacts,      \* files exported__<field>__<snapshot>.<ext>
    pc,             \* where export() is
    fam,            \* the family the export phase is working on
    scanned,        \* families whose data/proc0 was globbed in this cycle
    needed,         \* per family: natsorted(needed_varfiles), line 142/170
    files,          \* per family: varfiles / pvarfiles that are dispatched
    error_codes,    \* per dispatched index: the state or result of its worker
    delete_calls,   \* snapshots delete_original_snapshot was called on (cycle)
    reports,        \* what delete_original_snapshot reports per snapshot (cycle)
    analysis_log,   \* outcomes of the analysis command's runs (cycle)
    cycle,          \* cycles of the while loop begun in this run
    run             \* runs of export() so far

exportVars == <<argv, args, pencil, corrupt, roProcs, shards, artifacts, pc, fam,
                scanned, needed, files, error_codes, delete_calls, reports,
                analysis_log, cycle, run>>

\* ---- the daemon registry and the PBS scheduler ---------------------------
MaxJobs == 2

\* Daemon names the commands are tried with.
DaemonNames == {"a", "b"}

VARIABLES
    dirs,           \* names whose directory ~/.pySnapCollate/<name> exists
    config,         \* per name: config.json (state: missing, ok or corrupt)
    script,         \* per name: run.csh
    markers,        \* per name: the job ids of its active_job.<id> files
    unknown,        \* per name: the directory holds files of other origin
    queue,          \* numbers of the jobs PBS has queued or running
    submitted,      \* per job submitted so far, in order: the daemon's name
    lastcmd         \* the last daemon command: its command line and whether
                    \* the scheduler answers its qstat calls

daemonVars == <<dirs, config, script, markers, unknown, queue, submitted, lastcmd>>

vars == <<exportVars, daemonVars>>

\* ---- names, fields, files ----------------------------------------------

\* The fields the reader's object has for a snapshot of each family.
FieldsOf(snapshot) ==
    IF snapshot[1] = "VAR" THEN {"rho", "t"} ELSE {"xp"}

\* len(np.shape(data)) == 0
IsScalar(field) == field = "t"

\* 'exported__'+varname+'__'+varfile+'.txt' or '.npy'
ArtifactOf(field, snapshot) ==
    <<field, snapshot, IF IsScalar(field) THEN "txt" ELSE "npy">>

\* A variant: the glob looks for '.npy' only.
ArtifactExistsNpy(arts, field, snapshot) ==
    \E a \in arts : a[1] = field /\ a[2] = snapshot /\ a[3] = "npy"

\* glob.glob('exported__'+varname+'__'+varfile+'.*') is not empty
ArtifactExists(arts, field, snapshot) ==
    \E a \in arts : a[1] = field /\ a[2] = snapshot

Range(s) == {s[i] : i \in 1 .. Len(s)}

\* ---- natsort ------------------------------------------------------------

RECURSIVE Digits(_)
Digits(n) == IF n < 10 THEN <<n>> ELSE Digits(n \div 10) \o <<n % 10>>

\* The order of the decimal strings, character by character.
RECURSIVE LexLeq(_, _)
LexLeq(a, b) ==
    IF a = << >> THEN TRUE
    ELSE IF b = << >> THEN FALSE
    ELSE IF a[1] # b[1] THEN a[1] < b[1]
    ELSE LexLeq(Tail(a), Tail(b))

LexOrder(x, y) == LexLeq(Digits(x[2]), Digits(y[2]))

\* natsort's key: the digits of a name compare as a number.
NatOrder(x, y) == x[2] <= y[2]

\* A variant: sorted() on the names, character by character.
RECURSIVE lexsorted(_)
lexsorted(S) ==
    IF S = {} THEN << >>
    ELSE LET m == CHOOSE x \in S : \A y \in S : LexOrder(x, y)
         IN  <<m>> \o lexsorted(S \ {m})

RECURSIVE natsorted(_)
natsorted(S) ==
    IF S = {} THEN << >>
    ELSE LET m == CHOOSE x \in S : \A y \in S : NatOrder(x, y)
         IN  <<m>> \o natsorted(S \ {m})

\* ---- the locator ----------------------------------------------------------

\* glob of data/proc0/VAR* (PVAR*), basenames
GlobProc0(f) == {s \in OnDisk : s[1] = f /\ <<0, s>> \in shards}

\* A variant: retained only when every requested field is missing.
StillNeededIfAllMissing(arts, names, snapshot) ==
    \A i \in 1 .. Len(names) : ~ArtifactExists(arts, names[i], snapshot)

\* varfile_still_needed after the loop over args.varnames
StillNeeded(arts, names, snapshot) ==
    \E i \in 1 .. Len(names) : ~ArtifactExists(arts, names[i], snapshot)

\* A variant: the slice is one too long.
TruncateOneMore(list, a) ==
    IF a.one_batch_at_a_time /\ Len(list) > a.batch_size + 1
    THEN SubSeq(list, 1, a.batch_size + 1)
    ELSE list

\* varfiles[:args.batch_size] if args.one_batch_at_a_time
Truncate(list, a) ==
    IF a.one_batch_at_a_time /\ Len(list) > a.batch_size
    THEN SubSeq(list, 1, a.batch_size)
    ELSE list

NamesOf(a, f) == IF f = "VAR" THEN a.varnames ELSE a.pvarnames
ListOf(a, f) == IF f = "VAR" THEN a.varfiles ELSE a.pvarfiles

\* A variant: no family is ever skipped.
SkipNothing(a, f) == FALSE

\* skip_varfiles, skip_pvarfiles
Skip(a, f) == Len(ListOf(a, f)) = 0 /\ Len(NamesOf(a, f)) = 0

Explicit(a, f) == Len(ListOf(a, f)) > 0

AutoDiscovered(a, f) == ~Explicit(a, f) /\ ~Skip(a, f)

Retained(f) ==
    natsorted({s \in GlobProc0(f) : StillNeeded(artifacts, NamesOf(args, f), s)})

\* ---- export_pencil ------------------------------------------------------

\* pc.read_var / pc.read_pvar returns (raises nothing)
ReadOK(snapshot) ==
    /\ snapshot \notin corrupt
    /\ \A p \in Procs : <<p, snapshot>> \in shards

\* A variant: the reader's exception is not caught and leaves the worker.
ReturnCodeUncaught(snapshot) ==
    IF ~pencil \/ ~ReadOK(snapshot) THEN "SystemExit" ELSE "rc0"

\* What a worker's call of export_pencil ends with: "SystemExit" (exit() at
\* the failed import), "rc1" (return 1) or "rc0" (return 0).
ReturnCode(snapshot) ==
    IF ~pencil THEN "SystemExit"
    ELSE IF ~ReadOK(snapshot) THEN "rc1"
    ELSE "rc0"

\* A variant: the loop over varnames ends at the first unknown name.
WrittenUntilUnknown(names, snapshot) ==
    IF ReturnCode(snapshot) = "rc0"
    THEN {ArtifactOf(names[i], snapshot) :
              i \in {j \in 1 .. Len(names) :
                        \A k \in 1 .. j : names[k] \in FieldsOf(snapshot)}}
    ELSE {}

\* The files a call of export_pencil writes.
Written(names, snapshot) ==
    IF ReturnCode(snapshot) = "rc0"
    THEN {ArtifactOf(names[i], snapshot) :
              i \in {j \in 1 .. Len(names) : names[j] \in FieldsOf(snapshot)}}
    ELSE {}

\* ---- delete_original_snapshot -------------------------------------------

\* A variant: only the shard of data/proc0 is removed.
RemovedProc0Only(snapshot) == {<<p, snapshot>> : p \in {0} \ roProcs} \cap shards

\* The shards os.remove removes for one snapshot.
Removed(snapshot) == {<<p, snapshot>> : p \in Procs \ roProcs} \cap shards

\* A variant: anything short of a full removal is reported as no removal.
ReportAllOrNothing(snapshot) ==
    IF \A p \in Procs : <<p, snapshot>> \notin (shards \ Removed(snapshot))
    THEN "successfully deleted" ELSE "NOT deleted"

\* The message of lines 90-96 (printed in verbose mode): n_deleted_files
\* counts the proc directories in which the file does not exist after the
\* attempt.
ReportOf(snapshot) ==
    LET after == shards \ Removed(snapshot)
        n_deleted_files == Cardinality({p \in Procs : <<p, snapshot>> \notin after})
    IN  IF Cardinality(Procs) = n_deleted_files THEN "successfully deleted"
        ELSE IF n_deleted_files = 0 THEN "NOT deleted"
        ELSE "PARTIALLY deleted"

\* ---- export(): the cycle driver -----------------------------------------

\* A variant: the request is kept as it is.
DaemonAsRequested(a) == a.daemon_mode

\* args.daemon_mode after the compatibility check
DaemonAfterCheck(a) ==
    a.daemon_mode /\ ~(Len(a.varfiles) > 0 \/ Len(a.pvarfiles) > 0)

Pending(list) == [i \in 1 .. Len(list) |-> "pending"]

Running == {i \in 1 .. Len(error_codes) : error_codes[i] = "running"}

Finished(code) == code \in {"rc0", "rc1", "SystemExit"}

\* The first index whose result raises when the driver iterates error_codes,
\* or one past the end.
FirstRaise ==
    LET bad == {i \in 1 .. Len(error_codes) : error_codes[i] = "SystemExit"}
    IN  IF bad = {} THEN Len(error_codes) + 1
        ELSE CHOOSE i \in bad : \A j \in bad : i <= j

\* A variant: the status is not looked at.
ShouldDeleteAnyStatus(a, code) == a.delete_originals

\* if error_code == 0 (under if args.delete_originals)
ShouldDelete(a, code) == a.delete_originals /\ code = "rc0"

\* A variant: the codes come in the reverse of the dispatched order.
CodeForReversed(i) == error_codes[Len(error_codes) + 1 - i]

\* zip(error_codes, varfiles): the code the loop pairs with the i-th name.
\* pool.map yields the results in the order of its input.
CodeFor(i) == error_codes[i]

\* The snapshots the zip loop calls delete_original_snapshot on.
DeleteList ==
    {files[fam][i] : i \in {j \in 1 .. (FirstRaise - 1) :
                               ShouldDelete(args, CodeFor(j))}}

CheckArgs ==
    /\ pc = "check"
    /\ args' = [args EXCEPT !.daemon_mode = DaemonAfterCheck(args)]
    /\ pc' = "discover"
    /\ UNCHANGED <<daemonVars, argv, pencil, corrupt, roProcs, shards, artifacts, fam, scanned,
                   needed, files, error_codes, delete_calls, reports, analysis_log,
                   cycle, run>>

\* A variant: an explicit list is cut to a batch as well.
DispatchedAllTruncated(f) ==
    IF Explicit(args, f) THEN Truncate(ListOf(args, f), args)
    ELSE IF Skip(args, f) THEN files[f]
    ELSE Truncate(Retained(f), args)

\* The dispatched list of a family, lines 121-144 and 150-172.
Dispatched(f) ==
    IF Explicit(args, f) THEN ListOf(args, f)
    ELSE IF Skip(args, f) THEN files[f]
    ELSE Truncate(Retained(f), args)

Discover ==
    /\ pc = "discover"
    /\ scanned' = {f \in Family : AutoDiscovered(args, f)}
    /\ needed' = [f \in Family |->
                    IF AutoDiscovered(args, f) THEN Retained(f) ELSE needed[f]]
    /\ files' = [f \in Family |-> Dispatched(f)]
    /\ fam' = "VAR"
    /\ error_codes' = IF Skip(args, "VAR") THEN << >> ELSE Pending(Dispatched("VAR"))
    /\ delete_calls' = {}
    /\ reports' = {}
    /\ analysis_log' = << >>
    /\ cycle' = IF cycle < MaxCycles THEN cycle + 1 ELSE cycle
    /\ pc' = "export"
    /\ UNCHANGED <<daemonVars, argv, args, pencil, corrupt, roProcs, shards, artifacts, run>>

\* A variant: after the last family the driver goes to the loop decision.
AfterFamilyNoAnalysis ==
    IF fam = "VAR"
    THEN /\ fam' = "PVAR"
         /\ pc' = "export"
         /\ error_codes' = IF Skip(args, "PVAR") THEN << >>
                           ELSE Pending(files["PVAR"])
    ELSE /\ fam' = fam
         /\ pc' = "loop"
         /\ error_codes' = error_codes

\* What follows the export of family fam.
AfterFamily ==
    IF fam = "VAR"
    THEN /\ fam' = "PVAR"
         /\ pc' = "export"
         /\ error_codes' = IF Skip(args, "PVAR") THEN << >>
                           ELSE Pending(files["PVAR"])
    ELSE /\ fam' = fam
         /\ pc' = "analyze"
         /\ error_codes' = error_codes

\* if not skip_varfiles / if not skip_pvarfiles: the branch not taken
SkipFamily ==
    /\ pc = "export"
    /\ Skip(args, fam)
    /\ AfterFamily
    /\ UNCHANGED <<daemonVars, argv, args, pencil, corrupt, roProcs, shards, artifacts, scanned,
                   needed, files, delete_calls, reports, analysis_log, cycle, run>>

\* A variant: the pool has a worker for every submitted call.
MaxWorkersPerCall(a) == Len(error_codes)

\* ProcessPoolExecutor(max_workers=args.batch_size)
MaxWorkers(a) == a.batch_size

\* The pool hands the next item of the call queue to an idle worker.
WorkerStart ==
    /\ pc = "export"
    /\ ~Skip(args, fam)
    /\ Cardinality(Running) < MaxWorkers(args)
    /\ \E i \in 1 .. Len(error_codes) :
          /\ error_codes[i] = "pending"
          /\ \A j \in 1 .. (i - 1) : error_codes[j] # "pending"
          /\ error_codes' = [error_codes EXCEPT ![i] = "running"]
    /\ UNCHANGED <<daemonVars, argv, args, pencil, corrupt, roProcs, shards, artifacts, pc, fam,
                   scanned, needed, files, delete_calls, reports, analysis_log, cycle, run>>

\* A worker's call of export_pencil ends.
WorkerFinish ==
    /\ pc = "export"
    /\ \E i \in Running :
          /\ artifacts' = artifacts \cup Written(NamesOf(args, fam), files[fam][i])
          /\ error_codes' = [error_codes EXCEPT ![i] = ReturnCode(files[fam][i])]
    /\ UNCHANGED <<daemonVars, argv, args, pencil, corrupt, roProcs, shards, pc, fam, scanned,
                   needed, files, delete_calls, reports, analysis_log, cycle, run>>

\* The with block ends (every worker has finished) and the driver runs the
\* zip loop over error_codes, lines 181-184 and 190-193.
Collect ==
    /\ pc = "export"
    /\ ~Skip(args, fam)
    /\ \A i \in 1 .. Len(error_codes) : Finished(error_codes[i])
    /\ shards' = shards \ UNION {Removed(s) : s \in DeleteList}
    /\ delete_calls' = delete_calls \cup DeleteList
    /\ reports' = reports \cup {<<s, ReportOf(s)>> : s \in DeleteList}
    /\ IF args.delete_originals /\ FirstRaise <= Len(error_codes)
       THEN pc' = "exited" /\ UNCHANGED <<fam, error_codes>>
       ELSE AfterFamily
    /\ UNCHANGED <<daemonVars, argv, args, pencil, corrupt, roProcs, artifacts, scanned, needed,
                   files, analysis_log, cycle, run>>

\* A variant: the exceptions of subprocess.run are not caught.
AfterAnalysisUncaught(outcome) == IF outcome = "ok" THEN "loop" ELSE "exited"

\* Where the driver is after subprocess.run ended with outcome: both except
\* clauses print and fall through to the loop decision.
AfterAnalysis(outcome) == "loop"

\* subprocess.run of the analysis command, lines 196-206
Analyze ==
    /\ pc = "analyze"
    /\ IF args.analysis
       THEN \E outcome \in {"ok", "CalledProcessError", "FileNotFoundError"} :
               /\ analysis_log' = Append(analysis_log, outcome)
               /\ pc' = AfterAnalysis(outcome)
       ELSE /\ analysis_log' = analysis_log
            /\ pc' = "loop"
    /\ UNCHANGED <<daemonVars, argv, args, pencil, corrupt, roProcs, shards, artifacts, fam,
                   scanned, needed, files, error_codes, delete_calls, reports, cycle, run>>

\* A variant: the loop goes on only after a cycle without a failed analysis.
AfterCycleFailureAware(a) ==
    IF a.daemon_mode /\ (\A i \in 1 .. Len(analysis_log) : analysis_log[i] = "ok")
    THEN "wait" ELSE "done"

\* if args.daemon_mode: ... time.sleep ... else: break
AfterCycle(a) == IF a.daemon_mode THEN "wait" ELSE "done"

Loop ==
    /\ pc = "loop"
    /\ pc' = AfterCycle(args)
    /\ UNCHANGED <<daemonVars, argv, args, pencil, corrupt, roProcs, shards, artifacts, fam,
                   scanned, needed, files, error_codes, delete_calls, reports,
                   analysis_log, cycle, run>>

\* time.sleep returns
WakeUp ==
    /\ pc = "wait"
    /\ pc' = "discover"
    /\ UNCHANGED <<daemonVars, argv, args, pencil, corrupt, roProcs, shards, artifacts, fam,
                   scanned, needed, files, error_codes, delete_calls, reports,
                   analysis_log, cycle, run>>

\* The same command line is run again.
Rerun ==
    /\ pc \in {"done", "exited"}
    /\ run < MaxCycles
    /\ args' = argv
    /\ pc' = "check"
    /\ cycle' = 0
    /\ run' = run + 1
    /\ UNCHANGED <<daemonVars, argv, pencil, corrupt, roProcs, shards, artifacts, fam, scanned,
                   needed, files, error_codes, delete_calls, reports, analysis_log>>

ExportInit ==
    /\ argv \in [varnames : VarnamesChoices, varfiles : VarfilesChoices,
                 pvarnames : PvarnamesChoices, pvarfiles : PvarfilesChoices,
                 daemon_mode : BOOLEAN, delete_originals : BOOLEAN,
                 one_batch_at_a_time : BOOLEAN, batch_size : 1 .. MaxBatch,
                 analysis : BOOLEAN]
    /\ args = argv
    /\ pencil \in BOOLEAN
    /\ corrupt \in {{}, {<<"VAR", 9>>}}
    /\ pencil = FALSE => corrupt = {}
    /\ roProcs \in SUBSET Procs
    /\ argv.delete_originals = FALSE => roProcs = {}
    /\ shards = Procs \X OnDisk
    /\ artifacts = {}
    /\ pc = "check"
    /\ fam = "VAR"
    /\ scanned = {}
    /\ needed = [f \in Family |-> << >>]
    /\ files = [f \in Family |-> << >>]
    /\ error_codes = << >>
    /\ delete_calls = {}
    /\ reports = {}
    /\ analysis_log = << >>
    /\ cycle = 0
    /\ run = 1

\* ---- the daemon registry: documents and names ----------------------------

\* ' '.join(args.varnames)
Join(list) ==
    [i \in 1 .. (IF Len(list) = 0 THEN 0 ELSE 2 * Len(list) - 1) |->
        IF i % 2 = 1 THEN list[(i + 1) \div 2] ELSE " "]

\* The keys of config.json the model keeps (of name, source, target, lifetime,
\* group, resources, environment, queue, varnames, pvarnames, verbose, analysis,
\* analysis_dir, delete_originals, wait_time, one_batch_at_a_time, batch_size).
ConfigData(name, queue_name, lifetime, varnames, analysis) ==
    [name |-> name, queue |-> queue_name, lifetime |-> lifetime,
     varnames |-> Join(varnames),
     analysis |-> IF analysis = {} THEN "" ELSE CHOOSE x \in analysis : TRUE]

NoData == [name |-> "", queue |-> "", lifetime |-> 0, varnames |-> << >>,
           analysis |-> ""]

NoConfig == [state |-> "missing", data |-> NoData]

\* os.path.exists(config_path)
ConfigExists(n) == config[n].state # "missing"

\* The lines of run.csh the model keeps.
RunScript(n, data, lifetime, once_only) ==
    [name |-> n, lifetime |-> lifetime, varnames |-> data.varnames,
     analysis |-> data.analysis, daemon_mode |-> ~once_only]

\* ---- the scheduler --------------------------------------------------------

\* Characters are their ASCII codes.
IsDigit(c) == c \in 48 .. 57

\* The number of the next job PBS accepts.
NextJob == 9 + Len(submitted)

\* qsub's standard output for an accepted job: <number>.pbs1
QsubStdout(job) == [i \in 1 .. Len(Digits(job)) |-> 48 + Digits(job)[i]]
                       \o <<46, 112, 98, 115, 49>>

\* The last run of digits of a text.
LastDigitRun(out) ==
    LET ds == {i \in 1 .. Len(out) : IsDigit(out[i])}
    IN  IF ds = {} THEN << >>
        ELSE LET last == CHOOSE i \in ds : \A j \in ds : j <= i
                 first == CHOOSE i \in ds :
                             /\ \A j \in i .. last : j \in ds
                             /\ (i - 1) \notin ds
             IN  SubSeq(out, first, last)

\* re.search(r'(\d+)', result.stdout).group(1): the first run of digits
FirstDigitRun(out) ==
    LET ds == {i \in 1 .. Len(out) : IsDigit(out[i])}
    IN  IF ds = {} THEN << >>
        ELSE LET first == CHOOSE i \in ds : \A j \in ds : i <= j
                 last == CHOOSE i \in ds :
                            /\ \A j \in first .. i : j \in ds
                            /\ (i + 1) \notin ds
             IN  SubSeq(out, first, last)

\* The job a job id names for qstat and qdel.
RECURSIVE ParseJobId(_)
ParseJobId(id) ==
    IF id = << >> THEN 0
    ELSE 10 * ParseJobId(SubSeq(id, 1, Len(id) - 1)) + (id[Len(id)] - 48)

\* os.path.join(daemon_dir, f"active_job.{job_id}"), the name in the directory
MarkerFile(job_id) == <<97, 99, 116, 105, 118, 101, 95, 106, 111, 98, 46>> \o job_id

\* active_file.rsplit('.', 1)[-1]
JobIdOf(file) ==
    LET dots == {i \in 1 .. Len(file) : file[i] = 46}
    IN  IF dots = {} THEN file
        ELSE LET d == CHOOSE i \in dots : \A j \in dots : j <= i
             IN  SubSeq(file, d + 1, Len(file))

\* subprocess.run(["qstat", active_file.rsplit('.', 1)[-1]], check=True)
\* raises nothing
Qstat(file, up) == up /\ ParseJobId(JobIdOf(file)) \in queue

\* A variant: a marker whose qstat fails is left in place.
KeptMarkersNoCleanup(n, up) == markers[n]

\* The markers a loop over glob(active_pattern) keeps that removes every
\* marker whose qstat fails.
KeptMarkers(n, up) == {m \in markers[n] : Qstat(m, up)}

JobsOf(n) == {j \in queue : submitted[j - 8] = n}

Perms(S) ==
    {s \in [1 .. Cardinality(S) -> S] : \A i, j \in DOMAIN s : s[i] = s[j] => i = j}

\* ---- the commands ---------------------------------------------------------

\* A variant: the existing configuration is not looked for.
SetupDaemonOverwrite(n, force, queue_name, varnames) ==
    /\ lastcmd' = [cmd |-> "setup", name |-> n, force |-> force,
                   queue |-> {queue_name}, varnames |-> {varnames}, up |-> FALSE]
    /\ dirs' = dirs \cup {n}
    /\ config' = [config EXCEPT ![n] =
             [state |-> "ok",
              data |-> ConfigData(n, queue_name, 8, varnames, {})]]
    /\ UNCHANGED <<script, markers, unknown, queue, submitted, exportVars>>

SetupDaemon(n, force, queue_name, varnames) ==
    /\ lastcmd' = [cmd |-> "setup", name |-> n, force |-> force,
                   queue |-> {queue_name}, varnames |-> {varnames}, up |-> FALSE]
    /\ dirs' = dirs \cup {n}
    /\ IF ConfigExists(n) /\ ~force
       THEN config' = config
       ELSE config' = [config EXCEPT ![n] =
                [state |-> "ok",
                 data |-> ConfigData(n, queue_name, 8, varnames, {})]]
    /\ UNCHANGED <<script, markers, unknown, queue, submitted, exportVars>>

CopyDaemon(src, dest) ==
    /\ lastcmd' = [cmd |-> "copy", name |-> dest, force |-> FALSE,
                   queue |-> {}, varnames |-> {}, up |-> FALSE]
    /\ IF ConfigExists(dest) \/ config[src].state # "ok"
       THEN UNCHANGED <<dirs, config>>
       ELSE /\ dirs' = dirs \cup {dest}
            /\ config' = [config EXCEPT ![dest] =
                    [state |-> "ok",
                     data |-> [config[src].data EXCEPT !.name = dest]]]
    /\ UNCHANGED <<script, markers, unknown, queue, submitted, exportVars>>

\* A variant: the document is rebuilt, keys without an option getting the
\* values setup would give them.
ModifiedFromDefaults(data, n, queue_opt, varnames_opt) ==
    [data EXCEPT
        !.name = n,
        !.queue = IF queue_opt = {} THEN "normal" ELSE CHOOSE x \in queue_opt : TRUE,
        !.varnames = IF varnames_opt = {} THEN @
                     ELSE Join(CHOOSE x \in varnames_opt : TRUE)]

\* The configuration after the assignments of lines 356-372.
Modified(data, n, queue_opt, varnames_opt) ==
    [data EXCEPT
        !.name = n,
        !.queue = IF queue_opt = {} THEN @ ELSE CHOOSE x \in queue_opt : TRUE,
        !.varnames = IF varnames_opt = {} THEN @
                     ELSE Join(CHOOSE x \in varnames_opt : TRUE)]

ModifyDaemon(n, queue_opt, varnames_opt, up) ==
    /\ lastcmd' = [cmd |-> "modify", name |-> n, force |-> FALSE,
                   queue |-> queue_opt, varnames |-> varnames_opt, up |-> up]
    /\ IF config[n].state # "ok"
       THEN UNCHANGED <<config, script, markers>>
       ELSE IF KeptMarkers(n, up) # {}
       THEN \* returns at the first marker whose job is queued
            /\ \E gone \in SUBSET (markers[n] \ KeptMarkers(n, up)) :
                  markers' = [markers EXCEPT ![n] = @ \ gone]
            /\ UNCHANGED <<config, script>>
       ELSE /\ markers' = [markers EXCEPT ![n] = {}]
            /\ script' = [script EXCEPT ![n] = {}]
            /\ config' = [config EXCEPT ![n].data =
                              Modified(@, n, queue_opt, varnames_opt)]
    /\ UNCHANGED <<dirs, unknown, queue, submitted, exportVars>>

InspectDaemon(n, up) ==
    /\ lastcmd' = [cmd |-> "inspect", name |-> n, force |-> FALSE,
                   queue |-> {}, varnames |-> {}, up |-> up]
    /\ IF ~ConfigExists(n)
       THEN markers' = markers
       ELSE markers' = [markers EXCEPT ![n] = KeptMarkers(n, up)]
    /\ UNCHANGED <<dirs, config, script, unknown, queue, submitted, exportVars>>

StartDaemon(n, lifetime_opt, once_only, up, qsub_ok) ==
    /\ lastcmd' = [cmd |-> "start", name |-> n, force |-> FALSE,
                   queue |-> {}, varnames |-> {}, up |-> up]
    /\ qsub_ok => Len(submitted) < MaxJobs
    /\ IF ~ConfigExists(n)
       THEN UNCHANGED <<script, markers, queue, submitted>>
       ELSE IF \E m \in markers[n] : Qstat(m, up)
       THEN \* already_in_queue
            /\ markers' = [markers EXCEPT ![n] = KeptMarkers(n, up)]
            /\ UNCHANGED <<script, queue, submitted>>
       ELSE IF config[n].state = "corrupt"
       THEN \* config_data is unbound: NameError at line 471 or 477
            /\ markers' = [markers EXCEPT ![n] = KeptMarkers(n, up)]
            /\ UNCHANGED <<script, queue, submitted>>
       ELSE /\ script' = [script EXCEPT ![n] =
                    {RunScript(n, config[n].data,
                               IF lifetime_opt = {} THEN config[n].data.lifetime
                               ELSE CHOOSE x \in lifetime_opt : TRUE,
                               once_only)}]
            /\ IF qsub_ok
               THEN /\ queue' = queue \cup {NextJob}
                    /\ submitted' = Append(submitted, n)
                    /\ markers' = [markers EXCEPT ![n] =
                          KeptMarkers(n, up)
                              \cup {MarkerFile(FirstDigitRun(QsubStdout(NextJob)))}]
               ELSE /\ markers' = [markers EXCEPT ![n] = KeptMarkers(n, up)]
                    /\ UNCHANGED <<queue, submitted>>
    /\ UNCHANGED <<dirs, config, unknown, exportVars>>

\* The loop of lines 564-587 over the markers in glob's order: the markers
\* and the queue it leaves.
RECURSIVE StopLoop(_, _, _, _, _, _)
StopLoop(order, is_in_queue, ms, q, up, qdel_ok) ==
    IF order = << >> THEN [markers |-> ms, queue |-> q]
    ELSE LET m == Head(order)
             found == up /\ ParseJobId(JobIdOf(m)) \in q
             inq == is_in_queue \/ found
             ms1 == IF found THEN ms ELSE ms \ {m}
         IN  IF inq /\ qdel_ok /\ ParseJobId(JobIdOf(m)) \in q
             THEN StopLoop(Tail(order), inq, ms1 \ {m}, q \ {ParseJobId(JobIdOf(m))},
                           up, qdel_ok)
             ELSE StopLoop(Tail(order), inq, ms1, q, up, qdel_ok)

StopDaemon(n, up, qdel_ok) ==
    /\ lastcmd' = [cmd |-> "stop", name |-> n, force |-> FALSE,
                   queue |-> {}, varnames |-> {}, up |-> up]
    /\ IF ~ConfigExists(n)
       THEN UNCHANGED <<markers, queue>>
       ELSE \E order \in Perms(markers[n]) :
               LET r == StopLoop(order, FALSE, markers[n], queue, up, qdel_ok)
               IN  /\ markers' = [markers EXCEPT ![n] = r.markers]
                   /\ queue' = r.queue
    /\ UNCHANGED <<dirs, config, script, unknown, submitted, exportVars>>

RemoveDaemon(n, force, up) ==
    /\ lastcmd' = [cmd |-> "remove", name |-> n, force |-> force,
                   queue |-> {}, varnames |-> {}, up |-> up]
    /\ IF n \notin dirs
       THEN UNCHANGED <<dirs, config, script, markers, unknown>>
       ELSE IF KeptMarkers(n, up) # {}
       THEN /\ markers' = [markers EXCEPT ![n] = KeptMarkers(n, up)]
            /\ UNCHANGED <<dirs, config, script, unknown>>
       ELSE /\ markers' = [markers EXCEPT ![n] = {}]
            /\ config' = [config EXCEPT ![n] = NoConfig]
            /\ script' = [script EXCEPT ![n] = {}]
            /\ IF unknown[n] /\ ~force
               THEN \* os.rmdir fails with ENOTEMPTY
                    UNCHANGED <<dirs, unknown>>
               ELSE /\ dirs' = dirs \ {n}
                    /\ unknown' = [unknown EXCEPT ![n] = FALSE]
    /\ UNCHANGED <<queue, submitted, exportVars>>

\* ---- the world of the daemons ----------------------------------------------

\* A job ends (it finished, or PBS killed it at its walltime); PBS delivers
\* its output files to the daemon's directory (#PBS -e, #PBS -o).
JobEnds(j) ==
    /\ lastcmd' = [cmd |-> "", name |-> "", force |-> FALSE,
                   queue |-> {}, varnames |-> {}, up |-> FALSE]
    /\ j \in queue
    /\ queue' = queue \ {j}
    /\ unknown' = [n \in DaemonNames |->
                     unknown[n] \/ (n = submitted[j - 8] /\ n \in dirs)]
    /\ UNCHANGED <<dirs, config, script, markers, submitted, exportVars>>

\* config.json is damaged: json.load raises from now on.
CorruptConfig(n) ==
    /\ lastcmd' = [cmd |-> "", name |-> "", force |-> FALSE,
                   queue |-> {}, varnames |-> {}, up |-> FALSE]
    /\ config[n].state = "ok"
    /\ config' = [config EXCEPT ![n] = [state |-> "corrupt", data |-> NoData]]
    /\ UNCHANGED <<dirs, script, markers, unknown, queue, submitted, exportVars>>

DaemonInit ==
    /\ dirs = {}
    /\ config = [n \in DaemonNames |-> NoConfig]
    /\ script = [n \in DaemonNames |-> {}]
    /\ markers = [n \in DaemonNames |-> {}]
    /\ unknown = [n \in DaemonNames |-> FALSE]
    /\ queue = {}
    /\ submitted = << >>
    /\ lastcmd = [cmd |-> "", name |-> "", force |-> FALSE,
                   queue |-> {}, varnames |-> {}, up |-> FALSE]

\* One run of `pySnapCollate direct`, for the runs of the daemon commands.
ExportIdle ==
    /\ argv = [varnames |-> <<"rho", "t">>, varfiles |-> << >>,
               pvarnames |-> << >>, pvarfiles |-> << >>, daemon_mode |-> FALSE,
               delete_originals |-> FALSE, one_batch_at_a_time |-> FALSE,
               batch_size |-> 1, analysis |-> FALSE]
    /\ args = argv
    /\ pencil = TRUE
    /\ corrupt = {}
    /\ roProcs = {}
    /\ shards = Procs \X OnDisk
    /\ artifacts = {}
    /\ pc = "check"
    /\ fam = "VAR"
    /\ scanned = {}
    /\ needed = [f \in Family |-> << >>]
    /\ files = [f \in Family |-> << >>]
    /\ error_codes = << >>
    /\ delete_calls = {}
    /\ reports = {}
    /\ analysis_log = << >>
    /\ cycle = 0
    /\ run = 1

Init == ExportInit /\ DaemonInit

Next ==
    \/ CheckArgs
    \/ Discover
    \/ SkipFamily
    \/ WorkerStart
    \/ WorkerFinish
    \/ Collect
    \/ Analyze
    \/ Loop
    \/ WakeUp
    \/ Rerun

Spec == Init /\ [][Next]_vars

\* export() runs in one process that is never suspended for good: whenever the
\* driver or a worker has a next step, one is taken.
DriverStep ==
    \/ CheckArgs \/ Discover \/ SkipFamily \/ WorkerStart \/ WorkerFinish
    \/ Collect \/ Analyze \/ Loop \/ WakeUp

\* The command lines and worlds the progress of the driver is followed on.
FairInit ==
    /\ Init
    /\ roProcs = {}
    /\ argv.varnames \in {<< >>, <<"rho", "t">>}

FairSpec == FairInit /\ [][Next]_vars /\ WF_vars(DriverStep)

ConfigVarnamesChoices == {<<"rho">>, <<"rho", "t">>}

\* The daemon the commands are run on; the other name is a source and a
\* destination of copy.
Managed == {"a"}

Setup == \E n \in Managed, force \in BOOLEAN, vn \in ConfigVarnamesChoices :
            SetupDaemon(n, force, "normal", vn)

Copy == \E src \in DaemonNames, dest \in DaemonNames : CopyDaemon(src, dest)

Modify == \E n \in Managed, qo \in {{}, {"long"}}, vo \in {{}, {<<"rho">>}},
             up \in BOOLEAN : ModifyDaemon(n, qo, vo, up)

Inspect == \E n \in Managed, up \in BOOLEAN : InspectDaemon(n, up)

Start == \E n \in Managed, once_only \in BOOLEAN, up \in BOOLEAN,
            qsub_ok \in BOOLEAN : StartDaemon(n, {}, once_only, up, qsub_ok)

Stop == \E n \in Managed, up \in BOOLEAN, qdel_ok \in BOOLEAN :
           StopDaemon(n, up, qdel_ok)

Remove == \E n \in Managed, force \in BOOLEAN, up \in BOOLEAN :
             RemoveDaemon(n, force, up)

JobEnd == \E j \in queue : JobEnds(j)

Corrupt == \E n \in Managed : CorruptConfig(n)

DaemonNext ==
    \/ Setup
    \/ Copy
    \/ Modify
    \/ Inspect
    \/ Start
    \/ Stop
    \/ Remove
    \/ JobEnd
    \/ Corrupt

DaemonSpecInit == ExportIdle /\ DaemonInit

DaemonSpec == DaemonSpecInit /\ [][DaemonNext]_vars

\* ==== properties of the export cycle (checked under Spec) =================

\* A step that is the zip loop after the pool of family fam.
CollectStep == pc = "export" /\ ~Skip(args, fam) /\ (pc' # "export" \/ fam' # fam)

\* Every requested field of a snapshot has an exported artifact.
AllFieldsExported(f, s) ==
    \A i \in 1 .. Len(NamesOf(args, f)) :
        \E a \in artifacts : a[1] = NamesOf(args, f)[i] /\ a[2] = s

\* C1: a shard of S is removed only if delete_originals is set and the export
\* of S itself returned status 0 in this cycle (so a failed export of S removes
\* nothing of S), and every snapshot of the batch whose export returned 0 gets
\* its delete_original_snapshot call, whatever the other snapshots returned.
C1_DeletionGatedByOwnStatus ==
    [][ /\ \A sh \in shards \ shards' :
              /\ args.delete_originals
              /\ \E i \in 1 .. Len(error_codes) :
                    files[fam][i] = sh[2] /\ error_codes[i] = "rc0"
        /\ (CollectStep /\ args.delete_originals) =>
              \A i \in 1 .. Len(error_codes) :
                  error_codes[i] = "rc0" => files[fam][i] \in delete_calls'
      ]_vars

\* VAR9 failed to export and keeps all its shards while VAR10 of the same
\* batch was exported and deleted.
C1_Witness ==
    /\ args.delete_originals
    /\ pc = "analyze"
    /\ <<"VAR", 9>> \in corrupt
    /\ <<"VAR", 9>> \in Range(files["VAR"])
    /\ \A p \in Procs : <<p, <<"VAR", 9>>>> \in shards
    /\ <<"VAR", 10>> \in delete_calls
    /\ \A p \in Procs : <<p, <<"VAR", 10>>>> \notin shards

\* C2: in auto-discovery a snapshot of data/proc0 is left out of the
\* discovered list exactly when every requested field has an artifact.
C2_ExcludedIffAllFieldsExported ==
    [][ pc = "discover" =>
          \A f \in Family :
              AutoDiscovered(args, f) =>
                 /\ Range(needed'[f]) \subseteq GlobProc0(f)
                 /\ \A s \in GlobProc0(f) :
                        (s \notin Range(needed'[f])) <=> AllFieldsExported(f, s)
      ]_vars

\* With two requested fields: one snapshot is left out, another is retained.
C2_Witness ==
    /\ pc = "export"
    /\ AutoDiscovered(args, "VAR")
    /\ Len(args.varnames) = 2
    /\ \E s \in GlobProc0("VAR") :
          s \notin Range(needed["VAR"]) /\ AllFieldsExported("VAR", s)
    /\ \E s \in Range(needed["VAR"]) : ~AllFieldsExported("VAR", s)

\* A discovery that is not the first one of the first run.
LaterDiscovery == pc = "discover" /\ (run > 1 \/ cycle >= 1)

\* Every snapshot of data/proc0 of every auto-discovered family is exported.
AllExported ==
    \A f \in Family :
        AutoDiscovered(args, f) => \A s \in GlobProc0(f) : AllFieldsExported(f, s)

\* C3: run again on the same inputs, a snapshot whose requested fields were
\* all exported before is not discovered; when all were exported the
\* discovered list of each family is empty and no artifact is added.
C3_Idempotent ==
    [][ /\ LaterDiscovery =>
              \A f \in Family :
                  AutoDiscovered(args, f) =>
                     /\ \A s \in GlobProc0(f) :
                            AllFieldsExported(f, s) =>
                               /\ s \notin Range(needed'[f])
                               /\ s \notin Range(files'[f])
                     /\ (\A s \in GlobProc0(f) : AllFieldsExported(f, s)) =>
                            needed'[f] = << >> /\ files'[f] = << >>
        /\ ((run > 1 \/ cycle > 1) /\ AllExported) => artifacts' = artifacts
      ]_vars

\* The second run has ended: all of VAR was exported by the first one and
\* nothing was discovered.
C3_Witness ==
    /\ run = 2
    /\ pc = "done"
    /\ AutoDiscovered(args, "VAR")
    /\ GlobProc0("VAR") = {s \in OnDisk : s[1] = "VAR"}
    /\ Len(args.varnames) = 2
    /\ AllExported
    /\ needed["VAR"] = << >>
    /\ files["VAR"] = << >>

AnyExplicit(a) == Explicit(a, "VAR") \/ Explicit(a, "PVAR")

\* C4: with an explicit file list the run has daemon mode off after the
\* check, never sleeps, begins one cycle only, and cannot get stuck before
\* it ends.
C4_ExplicitListsForceSinglePass ==
    AnyExplicit(argv) =>
        /\ pc # "check" => ~args.daemon_mode
        /\ pc # "wait"
        /\ cycle <= 1
        /\ pc = "done" => cycle = 1
        /\ pc \notin {"done", "exited"} => ENABLED DriverStep

C4_Witness ==
    /\ argv.daemon_mode
    /\ AnyExplicit(argv)
    /\ pc = "done"
    /\ cycle = 1

\* C5 as stated: with an explicit list for either family nothing is scanned
\* and only listed snapshots are dispatched, for both families.
C5_NoDiscoveryAtAll ==
    AnyExplicit(argv) =>
        /\ scanned = {}
        /\ \A f \in Family :
              Range(files[f]) \subseteq
                  Range(argv.varfiles) \cup Range(argv.pvarfiles)

\* C5, amended: a family with an explicit list is not scanned and its list is
\* dispatched as given (no filter, no truncation).
C5_ExplicitFamilyBypassesDiscovery ==
    \A f \in Family :
        (Explicit(argv, f) /\ pc \notin {"check", "discover"}) =>
            /\ f \notin scanned
            /\ files[f] = ListOf(argv, f)

\* The second run of an explicit list longer than a batch, in batch mode,
\* with the artifacts of a listed snapshot already there.
C5_Witness ==
    /\ Explicit(argv, "VAR")
    /\ args.one_batch_at_a_time
    /\ Len(args.varfiles) > args.batch_size
    /\ run = 2
    /\ pc = "export"
    /\ \E s \in Range(files["VAR"]) : AllFieldsExported("VAR", s)
    /\ files["VAR"] = args.varfiles

Min(a, b) == IF a <= b THEN a ELSE b

\* C6: the retained list is in natural order; in batch mode the locator
\* returns its first batch_size names (all of them when there are fewer),
\* otherwise all of it.
C6_BatchTruncation ==
    \A f \in Family :
        (AutoDiscovered(args, f) /\ pc \notin {"check", "discover"}) =>
            /\ \A i, j \in 1 .. Len(needed[f]) :
                  i < j => needed[f][i][2] < needed[f][j][2]
            /\ IF args.one_batch_at_a_time
               THEN /\ Len(files[f]) = Min(args.batch_size, Len(needed[f]))
                    /\ files[f] = SubSeq(needed[f], 1, Len(files[f]))
               ELSE files[f] = needed[f]

C6_Witness ==
    /\ pc = "export"
    /\ AutoDiscovered(args, "VAR")
    /\ args.one_batch_at_a_time
    /\ Len(needed["VAR"]) > args.batch_size
    /\ Len(files["VAR"]) = args.batch_size

\* C9 as stated: after a successful export with delete_originals no proc
\* directory holds the snapshot.
C9_AllShardsRemoved ==
    [][ (CollectStep /\ args.delete_originals) =>
            \A i \in 1 .. Len(error_codes) :
                error_codes[i] = "rc0" =>
                    \A p \in Procs : <<p, files[fam][i]>> \notin shards'
      ]_vars

\* C9, amended: after a successful export with delete_originals the snapshot
\* is left only in proc directories where os.remove fails, and no shard ever
\* comes back.
C9_RemovableShardsRemoved ==
    [][ /\ (CollectStep /\ args.delete_originals) =>
              \A i \in 1 .. Len(error_codes) :
                  error_codes[i] = "rc0" =>
                      \A p \in Procs \ roProcs :
                          <<p, files[fam][i]>> \notin shards'
        /\ shards' \subseteq shards
      ]_vars

\* A cycle has deleted VAR10 in proc1 and failed to in the read-only proc0.
C9_Witness ==
    /\ args.delete_originals
    /\ roProcs = {0}
    /\ pc \in {"done", "wait"}
    /\ <<"VAR", 10>> \in delete_calls
    /\ <<0, <<"VAR", 10>>>> \in shards
    /\ \A p \in Procs \ {0} : <<p, <<"VAR", 10>>>> \notin shards

\* C10: a reader failure ends the worker with status 1 and writes nothing;
\* the pool runs on, and with the reader installed the driver never exits and
\* always has its next step up to the end of the cycle.
C10_ReaderFailureIsContained ==
    /\ [](pencil => pc # "exited")
    /\ [](pc \in {"export", "analyze", "loop"} => ENABLED DriverStep)
    /\ [][ /\ \A i \in 1 .. Len(error_codes) :
                 ( /\ pc = "export"
                   /\ pencil
                   /\ error_codes[i] = "running"
                   /\ error_codes'[i] # "running"
                   /\ ~ReadOK(files[fam][i]) ) =>
                     /\ error_codes'[i] = "rc1"
                     /\ artifacts' = artifacts
           /\ (CollectStep /\ pencil) => pc' \in {"export", "analyze"}
         ]_vars

\* The cycle has ended: VAR9 could not be read and has no artifact, VAR10 of
\* the same cycle was exported.
C10_Witness ==
    /\ pc \in {"done", "wait"}
    /\ <<"VAR", 9>> \in corrupt
    /\ <<"VAR", 9>> \in Range(files["VAR"])
    /\ <<"VAR", 10>> \in Range(files["VAR"])
    /\ ~\E a \in artifacts : a[2] = <<"VAR", 9>>
    /\ \E a \in artifacts : a[2] = <<"VAR", 10>>

\* Worker i's call of export_pencil ends in this step.
Returns(i) ==
    /\ pc = "export"
    /\ i \in 1 .. Len(error_codes)
    /\ error_codes[i] = "running"
    /\ error_codes'[i] # "running"

\* C11: a call of export_pencil whose read succeeds returns 0 and has written
\* the artifact of every requested field the snapshot has, wherever an unknown
\* name stands in the list; an unknown name gets no artifact.
C11_UnknownFieldIsSkipped ==
    [][ \A i \in 1 .. Len(error_codes) :
            (Returns(i) /\ pencil /\ ReadOK(files[fam][i])) =>
                /\ error_codes'[i] = "rc0"
                /\ \A k \in 1 .. Len(NamesOf(args, fam)) :
                      LET nm == NamesOf(args, fam)[k]
                      IN  IF nm \in FieldsOf(files[fam][i])
                          THEN ArtifactOf(nm, files[fam][i]) \in artifacts'
                          ELSE ~\E a \in artifacts' :
                                   a[1] = nm /\ a[2] = files[fam][i]
      ]_vars

\* A call with the unknown name zz ahead of rho has returned 0 and written
\* rho.
C11_Witness ==
    /\ pc = "export"
    /\ fam = "VAR"
    /\ args.varnames = <<"zz", "rho">>
    /\ \E i \in 1 .. Len(error_codes) :
          /\ error_codes[i] = "rc0"
          /\ ArtifactOf("rho", files["VAR"][i]) \in artifacts
          /\ ~\E a \in artifacts : a[1] = "zz"

\* C12 as stated: a call of export_pencil that ended at the failed import of
\* the reader ends the driver, which goes on to nothing else.
C12_MissingReaderIsFatal ==
    [][ (CollectStep /\ \E i \in 1 .. Len(error_codes) :
                            error_codes[i] = "SystemExit") =>
            pc' = "exited"
      ]_vars

\* The analysis command of this cycle has failed.
AnalysisFailed ==
    /\ Len(analysis_log) > 0
    /\ analysis_log[Len(analysis_log)] \in {"CalledProcessError", "FileNotFoundError"}

\* C13: whatever the analysis command ends with, the driver goes from the
\* analysis to the loop decision and from there to the sleep (daemon mode) or
\* the end (single pass), and after the sleep to the next discovery; it has
\* its next step at each of these points.
C13_AnalysisFailureIsNotFatal ==
    /\ [][ pc = "analyze" => pc' = "loop" ]_vars
    /\ [][ (pc = "loop" /\ AnalysisFailed) =>
               pc' = IF args.daemon_mode THEN "wait" ELSE "done" ]_vars
    /\ [][ (pc = "wait" /\ AnalysisFailed) =>
               (pc' = "discover" /\ cycle' = cycle) ]_vars
    /\ [](pc \in {"analyze", "loop"} => ENABLED DriverStep)
    /\ []((pc = "wait" /\ cycle < MaxCycles) => ENABLED WakeUp)

\* A daemon run sleeps after a cycle that exported a snapshot and whose
\* analysis command was not found.
C13_Witness ==
    /\ args.daemon_mode
    /\ pc = "wait"
    /\ cycle < MaxCycles
    /\ analysis_log = <<"FileNotFoundError">>
    /\ artifacts # {}

\* C14: the loop decision looks at args.daemon_mode only. In daemon mode the
\* driver sleeps, and after the sleep it is back at the discovery of the next
\* cycle, whatever the statuses and the analysis of the cycle were; otherwise
\* it ends, having run one cycle.
C14_LoopIsUnconditional ==
    /\ [][ pc = "loop" =>
              pc' = IF args.daemon_mode THEN "wait" ELSE "done" ]_vars
    /\ [][ pc = "wait" => (pc' = "discover" /\ cycle' = cycle) ]_vars
    /\ []((pc # "check" /\ ~args.daemon_mode) => (pc # "wait" /\ cycle <= 1))
    /\ []((pc = "done") => (cycle = 1 /\ ~args.daemon_mode))
    /\ ((pc = "loop" /\ args.daemon_mode /\ cycle < MaxCycles) ~> (pc = "discover"))
    /\ ((pc = "loop" /\ ~args.daemon_mode) ~> (pc = "done"))

\* The second cycle of a daemon run is exporting; VAR9 failed in the first
\* cycle and is dispatched again.
C14_Witness ==
    /\ args.daemon_mode
    /\ cycle = 2
    /\ pc = "export"
    /\ fam = "VAR"
    /\ <<"VAR", 9>> \in corrupt
    /\ <<"VAR", 9>> \in Range(files["VAR"])
    /\ \E a \in artifacts : a[2] = <<"VAR", 10>>
    /\ ~\E a \in artifacts : a[2] = <<"VAR", 9>>

\* Neither field names nor files were given for family f.
NotRequested(f) == Len(NamesOf(argv, f)) = 0 /\ Len(ListOf(argv, f)) = 0

\* C15: a family given neither field names nor files is never scanned, has
\* nothing retained or dispatched, no worker, no artifact, no deletion call
\* and keeps all its shards; the driver steps over it, and the other family
\* is scanned or dispatched as it would be alone.
C15_SkippedFamilyIsUntouched ==
    \A f \in Family :
        NotRequested(f) =>
            /\ f \notin scanned
            /\ needed[f] = << >>
            /\ files[f] = << >>
            /\ (pc = "export" /\ fam = f) =>
                   (error_codes = << >> /\ ENABLED SkipFamily)
            /\ \A a \in artifacts : a[2][1] # f
            /\ \A s \in delete_calls : s[1] # f
            /\ \A sh \in Procs \X OnDisk : sh[2][1] = f => sh \in shards
            /\ \A g \in Family \ {f} :
                  (~NotRequested(g) /\ pc \notin {"check", "discover"}) =>
                      IF Len(ListOf(argv, g)) > 0
                      THEN files[g] = ListOf(argv, g)
                      ELSE g \in scanned

\* VAR was not requested; the run has ended with PVAR1 exported and deleted
\* and every VAR shard in place.
C15_Witness ==
    /\ NotRequested("VAR")
    /\ args.delete_originals
    /\ pc = "done"
    /\ ArtifactOf("xp", <<"PVAR", 1>>) \in artifacts
    /\ \A p \in Procs : <<p, <<"PVAR", 1>>>> \notin shards
    /\ \A p \in Procs : <<p, <<"VAR", 9>>>> \in shards

\* C19: an auto-discovered family's retained and dispatched lists ascend by
\* the number in the name (VAR2, VAR9, VAR10), and a bounded batch takes the
\* lowest numbers: what is retained but not dispatched is numbered above all
\* that is dispatched.
C19_NaturalSortOrder ==
    \A f \in Family :
        (AutoDiscovered(args, f) /\ pc \notin {"check", "discover"}) =>
            /\ \A i, j \in 1 .. Len(files[f]) :
                  i < j => files[f][i][2] < files[f][j][2]
            /\ \A i \in 1 .. Len(files[f]) : \A j \in 1 .. Len(needed[f]) :
                  (needed[f][j] \notin Range(files[f])) =>
                      files[f][i][2] < needed[f][j][2]
            /\ \A i, j \in 1 .. Len(needed[f]) :
                  (needed[f][i] = <<f, 9>> /\ needed[f][j] = <<f, 10>>) => i < j

\* A batch of two out of VAR2, VAR9, VAR10 is VAR2, VAR9.
C19_Witness ==
    /\ AutoDiscovered(args, "VAR")
    /\ pc = "export"
    /\ args.one_batch_at_a_time
    /\ needed["VAR"] = <<<<"VAR", 2>>, <<"VAR", 9>>, <<"VAR", 10>>>>
    /\ files["VAR"] = <<<<"VAR", 2>>, <<"VAR", 9>>>>

\* The changes of phase the driver can make.
PhaseOrder ==
    {<<"check", "discover">>, <<"discover", "export">>, <<"export", "analyze">>,
     <<"export", "exited">>, <<"analyze", "loop">>, <<"loop", "wait">>,
     <<"loop", "done">>, <<"wait", "discover">>, <<"done", "check">>,
     <<"exited", "check">>}

\* C21: the driver changes phase only along discover, export, analyze, loop,
\* then wait or done; during the export phase the lists of both families are
\* fixed; from the analysis on no worker is pending or running and no
\* artifact, shard or deletion call changes; the analysis command has not run
\* before the analysis phase and has run exactly once after it (when
\* configured), so the driver sleeps or ends only after it.
C21_PhaseOrder ==
    /\ [][ pc' # pc => <<pc, pc'>> \in PhaseOrder ]_vars
    /\ [][ pc = "export" => (UNCHANGED <<scanned, needed, files>>) ]_vars
    /\ [][ (pc \in {"analyze", "loop", "wait", "done"}) =>
              (UNCHANGED <<artifacts, shards, delete_calls, error_codes>>) ]_vars
    /\ [](pc \in {"analyze", "loop", "wait", "done"} =>
              \A i \in 1 .. Len(error_codes) :
                  error_codes[i] \in {"rc0", "rc1", "SystemExit"})
    /\ [](pc \in {"export", "analyze"} => analysis_log = << >>)
    /\ [](pc \in {"loop", "wait", "done"} =>
              Len(analysis_log) = IF args.analysis THEN 1 ELSE 0)

\* The second run has ended: it found nothing to export and ran the analysis
\* command once.
C21_Witness ==
    /\ run = 2
    /\ pc = "done"
    /\ args.analysis
    /\ Len(analysis_log) = 1
    /\ AutoDiscovered(args, "VAR")
    /\ files["VAR"] = << >>
    /\ files["PVAR"] = << >>
    /\ artifacts # {}

\* The calls of export_pencil that are running.
Busy == {i \in 1 .. Len(error_codes) : error_codes[i] = "running"}

\* C22: never more than batch_size calls of export_pencil run at once,
\* whatever the number of dispatched snapshots; calls run in the export phase
\* only, and when the driver turns from VAR to PVAR (or to the analysis) no
\* call is running or waiting.
C22_AtMostBatchSizeWorkers ==
    /\ [](Cardinality(Busy) <= args.batch_size)
    /\ [](Busy # {} => pc = "export")
    /\ [][ (fam' # fam \/ (pc = "export" /\ pc' # "export")) =>
              \A i \in 1 .. Len(error_codes) :
                  error_codes[i] \notin {"pending", "running"} ]_vars

\* Without batch mode three snapshots are dispatched to a pool of one worker:
\* one call runs, another waits.
C22_Witness ==
    /\ ~args.one_batch_at_a_time
    /\ pc = "export"
    /\ Len(files[fam]) > args.batch_size
    /\ Cardinality(Busy) = args.batch_size
    /\ \E i \in 1 .. Len(error_codes) : error_codes[i] = "pending"

\* C23: in whatever order the workers of a batch finished, the zip loop
\* calls delete_original_snapshot for a dispatched snapshot exactly when the
\* export of that snapshot succeeded.
C23_CodesMatchedByPosition ==
    [][ (CollectStep /\ args.delete_originals /\ pencil) =>
            \A i \in 1 .. Len(files[fam]) :
                (files[fam][i] \in delete_calls') <=>
                    ( /\ files[fam][i] \notin corrupt
                      /\ \A p \in Procs : <<p, files[fam][i]>> \in shards )
      ]_vars

\* A pool of two workers exported VAR2, VAR9, VAR10; VAR9 failed; VAR2 and
\* VAR10 were deleted and VAR9 was not.
C23_Witness ==
    /\ args.delete_originals
    /\ args.batch_size = 2
    /\ pc = "analyze"
    /\ files["VAR"] = <<<<"VAR", 2>>, <<"VAR", 9>>, <<"VAR", 10>>>>
    /\ <<"VAR", 9>> \in corrupt
    /\ {s \in delete_calls : s[1] = "VAR"} = {<<"VAR", 2>>, <<"VAR", 10>>}
    /\ \A p \in Procs : <<p, <<"VAR", 9>>>> \in shards

\* The artifact files the running call at position i writes.
WritesOf(i) ==
    IF pencil /\ files[fam][i] \notin corrupt
       /\ \A p \in Procs : <<p, files[fam][i]>> \in shards
    THEN {ArtifactOf(NamesOf(args, fam)[k], files[fam][i]) :
             k \in {l \in 1 .. Len(NamesOf(args, fam)) :
                       NamesOf(args, fam)[l] \in FieldsOf(files[fam][i])}}
    ELSE {}

\* C24 as stated: two calls of export_pencil that run at the same time write
\* no artifact file in common.
C24_NoSharedArtifactWrites ==
    \A i, j \in Busy : i # j => WritesOf(i) \cap WritesOf(j) = {}

Readable(s) ==
    /\ pencil
    /\ s \notin corrupt
    /\ \A p \in Procs : <<p, s>> \in shards

\* Every requested field the reader knows for s has an artifact.
Exported(s) ==
    \A i \in 1 .. Len(NamesOf(args, s[1])) :
        NamesOf(args, s[1])[i] \in FieldsOf(s)
            => ArtifactOf(NamesOf(args, s[1])[i], s) \in artifacts

Awaited(s) ==
    /\ pc = "discover"
    /\ args.daemon_mode
    /\ AutoDiscovered(args, s[1])
    /\ Readable(s)

\* C26: in daemon mode with auto-discovery every readable snapshot is
\* eventually exported, whatever one_batch_at_a_time is and even when
\* lower-numbered snapshots persistently fail to read.
C26_DaemonProgress ==
    \A s \in OnDisk : Awaited(s) ~> Exported(s)

\* The same progress property for drivers that dispatch every needed
\* snapshot in each cycle (one_batch_at_a_time = false).
C26_ProgressWhenAllDispatched ==
    \A s \in OnDisk : (Awaited(s) /\ ~args.one_batch_at_a_time) ~> Exported(s)

\* C27: with delete_originals the shards of a snapshot are removed only
\* after an artifact exists for every requested field name of it, also
\* when one of the names is unknown to the reader.
C27_DeletedOnlyWhenFullyExported ==
    [][ (CollectStep /\ args.delete_originals) =>
            \A s \in delete_calls' \ delete_calls : AllFieldsExported(fam, s)
      ]_vars

\* The same property for requests whose names the reader all knows.
C27_DeletionAfterKnownFields ==
    [][ (CollectStep /\ args.delete_originals) =>
            \A s \in delete_calls' \ delete_calls :
                (\A k \in 1 .. Len(NamesOf(args, fam)) :
                     NamesOf(args, fam)[k] \in FieldsOf(s))
                    => AllFieldsExported(fam, s)
      ]_vars

\* ==== properties of the daemon commands (checked under DaemonSpec) =========

\* C7: start submits nothing for a daemon that has a job queued or running,
\* and then leaves run.csh alone and creates no marker.
C7_NoDoubleSubmission ==
    [][ \A n \in DaemonNames :
            (lastcmd'.cmd = "start" /\ lastcmd'.name = n /\ JobsOf(n) # {}) =>
                /\ submitted' = submitted
                /\ script'[n] = script[n]
                /\ markers'[n] \subseteq markers[n]
      ]_vars

\* C8: setup without --force on an existing config.json leaves every
\* configuration as it is; setup with --force writes the arguments.
C8_SetupKeepsExistingConfig ==
    [][ lastcmd'.cmd = "setup" =>
          LET n == lastcmd'.name
          IN  IF ConfigExists(n) /\ ~lastcmd'.force
              THEN config' = config
              ELSE /\ config'[n].state = "ok"
                   /\ config'[n].data.name = n
                   /\ {config'[n].data.queue} = lastcmd'.queue
                   /\ {config'[n].data.varnames} =
                          {Join(v) : v \in lastcmd'.varnames}
                   /\ \A m \in DaemonNames \ {n} : config'[m] = config[m]
      ]_vars

\* setup without --force has just run on a daemon whose configuration holds
\* the other choice of varnames.
C8_Witness ==
    /\ lastcmd.cmd = "setup"
    /\ ~lastcmd.force
    /\ config[lastcmd.name].state = "ok"
    /\ {config[lastcmd.name].data.varnames} #
           {Join(v) : v \in lastcmd.varnames}

\* The decimal numeral of a job number.
DecimalOf(j) == [i \in 1 .. Len(Digits(j)) |-> 48 + Digits(j)[i]]

C17_MarkerRemovedOnlyWhenJobGone ==
    [][ \A n \in DaemonNames :
            \A m \in markers[n] \ markers'[n] :
                ParseJobId(JobIdOf(m)) \notin queue'
      ]_vars

\* C18 as stated: start, stop, modify and inspect on a name whose
\* configuration is missing or corrupt change nothing (no marker, job, run
\* script or configuration), and copy writes a configuration only from a
\* source it could read.
C18_BadConfigAbortsCommand ==
    [][ /\ ( /\ lastcmd'.cmd \in {"start", "stop", "modify", "inspect"}
             /\ config[lastcmd'.name].state # "ok" ) =>
                UNCHANGED <<dirs, config, script, markers, queue, submitted>>
        /\ (lastcmd'.cmd = "copy" /\ config' # config) =>
                \E src \in DaemonNames :
                    /\ config[src].state = "ok"
                    /\ config'[lastcmd'.name].data =
                           [config[src].data EXCEPT !.name = lastcmd'.name]
      ]_vars

\* The configuration of n after the step is the one before it with the keys
\* of the logged options set to the options' values.
ModifiedInPlace(n) ==
    /\ config'[n].state = "ok"
    /\ {config'[n].data.queue} =
           IF lastcmd'.queue = {} THEN {config[n].data.queue} ELSE lastcmd'.queue
    /\ {config'[n].data.varnames} =
           IF lastcmd'.varnames = {} THEN {config[n].data.varnames}
           ELSE {Join(v) : v \in lastcmd'.varnames}
    /\ config'[n].data.name = config[n].data.name
    /\ config'[n].data.lifetime = config[n].data.lifetime
    /\ config'[n].data.analysis = config[n].data.analysis

\* C20: modify touches the configuration of its daemon only and creates no
\* directory; without a readable configuration it changes none; otherwise it
\* either leaves the configuration as it is (refused: a job is queued) or
\* sets the keys of the given options and keeps the others, and it does the
\* latter whenever the daemon has no marker.
C20_ModifyInPlace ==
    [][ lastcmd'.cmd = "modify" =>
          LET n == lastcmd'.name
          IN  /\ dirs' = dirs
              /\ \A m \in DaemonNames \ {n} : config'[m] = config[m]
              /\ config[n].state # "ok" => config'[n] = config[n]
              /\ config[n].state = "ok" =>
                    /\ (config'[n] = config[n] \/ ModifiedInPlace(n))
                    /\ markers[n] = {} => ModifiedInPlace(n)
      ]_vars

\* modify --queue long has run on a daemon set up with varnames rho t: the
\* queue is the new one, the varnames are the old ones.
C20_Witness ==
    /\ lastcmd.cmd = "modify"
    /\ lastcmd.queue = {"long"}
    /\ lastcmd.varnames = {}
    /\ config["a"].state = "ok"
    /\ config["a"].data.queue = "long"
    /\ config["a"].data.varnames = Join(<<"rho", "t">>)
    /\ script["a"] = {}

\* A marker of the daemon names a job the scheduler still holds.
JobActive(n) == \E m \in markers[n] : ParseJobId(JobIdOf(m)) \in queue

\* The command just run on n found, or would have found, a queued job:
\* modify and remove ask qstat, setup does not.
RunWhileActive(n, cmds) ==
    /\ lastcmd'.name = n
    /\ lastcmd'.cmd \in cmds
    /\ JobActive(n)
    /\ lastcmd'.cmd \in {"modify", "remove"} => lastcmd'.up

\* C28: while a job of a daemon is queued or running (its marker exists
\* and qstat succeeds) no command changes the daemon's configuration:
\* modify and remove refuse and setup, also with --force, does not
\* overwrite config.json.
C28_ConfigFrozenWhileJobActive ==
    [][ \A n \in Managed :
            RunWhileActive(n, {"setup", "modify", "remove"}) =>
                /\ config'[n] = config[n]
                /\ script'[n] = script[n]
                /\ dirs' = dirs
      ]_vars

\* The part of C28 that is about modify and remove.
C28_ModifyAndRemoveRefuse ==
    [][ \A n \in Managed :
            RunWhileActive(n, {"modify", "remove"}) =>
                /\ config'[n] = config[n]
                /\ script'[n] = script[n]
                /\ dirs' = dirs
                /\ unknown' = unknown
                /\ \A m \in markers[n] :
                      ParseJobId(JobIdOf(m)) \in queue => m \in markers'[n]
      ]_vars

\* C29: after any sequence of daemon commands, whatever the scheduler
\* answered, a daemon directory holds at most one active_job.* marker.
C29_AtMostOneMarker ==
    \A n \in DaemonNames : Cardinality(markers[n]) <= 1

\* The daemon was started twice, the first job is still queued, and one
\* marker is there.
C29_Witness ==
    /\ lastcmd.cmd = "start"
    /\ submitted = <<"a", "a">>
    /\ queue = {9, 10}
    /\ markers["a"] = {MarkerFile(<<49, 48>>)}

\* C30: remove is all or nothing: a removal that is refused (a job is
\* queued, or unknown files are there and --force is not given) leaves
\* config.json and run.csh as they were, and a removal that succeeds
\* leaves nothing of the directory.
C30_RemoveAllOrNothing ==
    [][ lastcmd'.cmd = "remove" =>
          LET n == lastcmd'.name
          IN  IF n \in dirs'
              THEN /\ config'[n] = config[n]
                   /\ script'[n] = script[n]
              ELSE /\ config'[n] = NoConfig
                   /\ script'[n] = {}
                   /\ markers'[n] = {}
                   /\ ~unknown'[n]
      ]_vars

\* The same property for the removals that are not stopped by unknown
\* files.
C30_RemoveWithoutUnknownFiles ==
    [][ (lastcmd'.cmd = "remove"
            /\ (lastcmd'.force \/ ~unknown[lastcmd'.name])) =>
          LET n == lastcmd'.name
          IN  IF n \in dirs'
              THEN /\ config'[n] = config[n]
                   /\ script'[n] = script[n]
              ELSE /\ config'[n] = NoConfig
                   /\ script'[n] = {}
                   /\ markers'[n] = {}
                   /\ ~unknown'[n]
      ]_vars

====
